---- MODULE Spec2Model ----
(***************************************************************************)
(* GearGuard maintenance tracker: the maintenance.request lifecycle, its   *)
(* cross-record side effects on maintenance.equipment, the stored computed *)
(* fields and the data-entry auto-fill.                                    *)
(*                                                                         *)
(* Conventions.  Record ids are positive integers; an unset many2one and   *)
(* an unset date are both 0 (Python's False).  Dates are day numbers.  A   *)
(* payload ("vals") is a function from field names to values; "f in vals"  *)
(* is f \in DOMAIN vals.  A ValidationError aborts the surrounding         *)
(* transaction: the operation fails and the database keeps the state it    *)
(* had when the operation began.                                           *)
(***************************************************************************)
EXTENDS Integers, Sequences, FiniteSets, TLC

VARIABLES today, equipment, requests, form, last

vars == <<today, equipment, requests, form, last>>

\* ------------------------------------------------------------------ bounds
MaxRequests == 2
MaxDays == 1
MaxMessages == 2

\* --------------------------------------------------------------- constants
StartDay == 10
PreventiveLeadDays == 7
WarrantyAlertDays == 30
DefaultLaborRate == 50

Stages == {"new", "in_progress", "repaired", "scrap"}
Types == {"corrective", "preventive"}
Users == {1, 2}
Teams == {1, 2}
Categories == {1, 2}
Equipments == {1, 2}

\* maintenance.team.member_ids: team 1 = {user 1}, team 2 = {user 1, user 2}
member_ids(t) == IF t = 1 THEN {1} ELSE {1, 2}

\* maintenance.team._compute_request_counts: the two counters as read from
\* team t (not stored, computed on every read)
compute_request_counts(t) ==
    [open_request_count |-> 0, todo_request_count |-> 0]

EmptyVals == [f \in {} |-> 0]

Has(vals, f) == f \in DOMAIN vals

\* dict.get(f): the value, or a falsy default when the key is absent
Get(vals, f, default) == IF Has(vals, f) THEN vals[f] ELSE default

\* record.update(vals)
Override(rec, vals) ==
    [f \in DOMAIN rec \cup DOMAIN vals |-> IF Has(vals, f) THEN vals[f] ELSE rec[f]]

\* ------------------------------------------------------- computed fields
\* _compute_overdue, evaluated on the day `day`
compute_overdue(req, day) ==
    IF req.schedule_date # 0
       /\ req.schedule_date < day
       /\ req.stage \notin {"repaired", "scrap"}
    THEN [req EXCEPT !.is_overdue = TRUE, !.days_overdue = day - req.schedule_date]
    ELSE [req EXCEPT !.is_overdue = FALSE, !.days_overdue = 0]

\* the costs with the labor left out of the total
compute_costs_without_labor(req) ==
    [req EXCEPT !.cost_labor = req.duration * req.cost_labor_rate,
                !.cost_total = req.cost_parts]

\* _compute_costs; hours and amounts are whole numbers
compute_costs(req) ==
    LET labor == req.duration * req.cost_labor_rate
    IN  [req EXCEPT !.cost_labor = labor,
                    !.cost_total = req.cost_parts + labor]

\* the warranty fields with an expired warranty raising no alert
compute_warranty_alert_no_alert_once_expired(eq, day) ==
    IF eq.warranty_date = 0
    THEN [eq EXCEPT !.warranty_alert = FALSE,
                    !.days_to_warranty_end = 0,
                    !.warranty_state = "none"]
    ELSE LET delta == eq.warranty_date - day
         IN  [eq EXCEPT !.days_to_warranty_end = delta,
                        !.warranty_alert = (delta > 0 /\ delta <= WarrantyAlertDays),
                        !.warranty_state = IF delta <= 0 THEN "expired"
                                           ELSE IF delta <= WarrantyAlertDays THEN "expiring"
                                           ELSE "valid"]

\* the warranty fields with a lapsed warranty shown as no warranty
compute_warranty_alert_lapsed_as_none(eq, day) ==
    IF eq.warranty_date = 0
    THEN [eq EXCEPT !.warranty_alert = FALSE,
                    !.days_to_warranty_end = 0,
                    !.warranty_state = "none"]
    ELSE LET delta == eq.warranty_date - day
         IN  [eq EXCEPT !.days_to_warranty_end = delta,
                        !.warranty_alert = (delta <= WarrantyAlertDays),
                        !.warranty_state = IF delta <= 0 THEN "none"
                                           ELSE IF delta <= WarrantyAlertDays THEN "expiring"
                                           ELSE "valid"]

\* _compute_warranty_alert, evaluated on the day `day`
compute_warranty_alert(eq, day) ==
    IF eq.warranty_date = 0
    THEN [eq EXCEPT !.warranty_alert = FALSE,
                    !.days_to_warranty_end = 0,
                    !.warranty_state = "none"]
    ELSE LET delta == eq.warranty_date - day
         IN  [eq EXCEPT !.days_to_warranty_end = delta,
                        !.warranty_alert = (delta <= WarrantyAlertDays),
                        !.warranty_state = IF delta <= 0 THEN "expired"
                                           ELSE IF delta <= WarrantyAlertDays THEN "expiring"
                                           ELSE "valid"]

\* super().write(vals) on one equipment: assign, then recompute the stored
\* warranty fields when warranty_date is in the payload
equipment_write(eq, vals, day) ==
    LET e1 == Override(eq, vals)
    IN  IF Has(vals, "warranty_date") THEN compute_warranty_alert(e1, day) ELSE e1

\* the constraint with the comparison turned round
check_dates_raises_reversed(req) ==
    /\ req.schedule_date # 0
    /\ req.close_date # 0
    /\ req.close_date > req.schedule_date

\* _check_dates on one record: TRUE when the constraint raises
check_dates_raises(req) ==
    /\ req.schedule_date # 0
    /\ req.close_date # 0
    /\ req.close_date < req.schedule_date

\* field defaults of maintenance.request
RequestDefaults(day) ==
    [ active |-> TRUE,
      stage |-> "new",
      maintenance_type |-> "corrective",
      request_date |-> day,
      schedule_date |-> 0,
      close_date |-> 0,
      equipment_id |-> 0,
      category_id |-> 0,
      maintenance_team_id |-> 0,
      technician_id |-> 0,
      duration |-> 0,
      cost_parts |-> 0,
      cost_labor_rate |-> DefaultLaborRate,
      cost_labor |-> 0,
      cost_total |-> 0,
      is_overdue |-> FALSE,
      days_overdue |-> 0 ]

Ids(reqs) == DOMAIN reqs

Range(s) == {s[i] : i \in DOMAIN s}

\* a database state, and the outcome of an operation on it
Db(ok, reqs, eqs) == [ok |-> ok, requests |-> reqs, equipment |-> eqs]

\* ---------------------------------------------------------------- create
\* MaintenanceRequest.create: the preventive default, then the ORM create
\* (defaults, stored computed fields, constraints)
\* the preventive default counted from the request date instead of from today
create_vals_from_request_date(vals, day) ==
    IF Has(vals, "maintenance_type") /\ vals["maintenance_type"] = "preventive"
       /\ Get(vals, "schedule_date", 0) = 0
    THEN Override(vals, [schedule_date |-> Get(vals, "request_date", day) + PreventiveLeadDays])
    ELSE vals

create_vals(vals, day) ==
    IF Has(vals, "maintenance_type") /\ vals["maintenance_type"] = "preventive"
       /\ Get(vals, "schedule_date", 0) = 0
    THEN Override(vals, [schedule_date |-> day + PreventiveLeadDays])
    ELSE vals

create(db, vals, day) ==
    LET rec == compute_costs(
                  compute_overdue(Override(RequestDefaults(day), create_vals(vals, day)), day))
    IN  IF check_dates_raises(rec)
        THEN Db(FALSE, db.requests, db.equipment)
        ELSE Db(TRUE, Append(db.requests, rec), db.equipment)

\* ----------------------------------------------------------------- write
\* the scrap side effect applied to the first record of the recordset only
scrap_cascade_first_only(ids, reqs, eqs) ==
    IF ids = <<>> THEN eqs
    ELSE LET e == reqs[Head(ids)].equipment_id
         IN  IF e # 0
             THEN [eqs EXCEPT ![e] =
                     [@ EXCEPT !.active = FALSE,
                               !.state = "scrapped",
                               !.message_ids = Append(@, [kind |-> "scrap", request |-> Head(ids)])]]
             ELSE eqs

\* the scrap loop of write: for request in self, in recordset order
RECURSIVE scrap_cascade(_, _, _)
scrap_cascade(ids, reqs, eqs) ==
    IF ids = <<>> THEN eqs
    ELSE LET r == Head(ids)
             e == reqs[r].equipment_id
             eqs1 == IF e # 0
                     THEN [eqs EXCEPT ![e] =
                             [@ EXCEPT !.active = FALSE,
                                       !.state = "scrapped",
                                       !.message_ids = Append(@, [kind |-> "scrap", request |-> r])]]
                     ELSE eqs
         IN  scrap_cascade(Tail(ids), reqs, eqs1)

\* the in_progress and repaired branches of write: the payload handed to super().write
write_vals(ids, vals, uid, reqs, day) ==
    LET v1 == IF Has(vals, "stage") /\ vals["stage"] = "in_progress"
                 /\ ~Has(vals, "technician_id")
                 /\ \E i \in DOMAIN ids : reqs[ids[i]].technician_id = 0
              THEN Override(vals, [technician_id |-> uid])
              ELSE vals
    IN  IF Has(vals, "stage") /\ vals["stage"] = "repaired" /\ ~Has(v1, "close_date")
        THEN Override(v1, [close_date |-> day])
        ELSE v1

\* super().write(vals) on one record: assign, then recompute the stored
\* computed fields whose dependencies are in the payload
orm_write(req, vals, day) ==
    LET r1 == Override(req, vals)
        r2 == IF Has(vals, "stage") \/ Has(vals, "schedule_date")
              THEN compute_overdue(r1, day)
              ELSE r1
    IN  IF Has(vals, "duration") \/ Has(vals, "cost_parts") \/ Has(vals, "cost_labor_rate")
        THEN compute_costs(r2)
        ELSE r2

\* write whose scrap side effect survives the validation error
write_keeps_cascade(db, ids, vals, uid, day) ==
    IF ~db.ok THEN db
    ELSE
    LET eqs1 == IF Has(vals, "stage") /\ vals["stage"] = "scrap"
                THEN scrap_cascade(ids, db.requests, db.equipment)
                ELSE db.equipment
        v == write_vals(ids, vals, uid, db.requests, day)
        reqs1 == [r \in Ids(db.requests) |->
                    IF r \in Range(ids) THEN orm_write(db.requests[r], v, day)
                    ELSE db.requests[r]]
        raises == /\ (Has(v, "schedule_date") \/ Has(v, "close_date"))
                  /\ \E r \in Range(ids) : check_dates_raises(reqs1[r])
    IN  IF raises THEN Db(FALSE, db.requests, eqs1)
        ELSE Db(TRUE, reqs1, eqs1)

\* MaintenanceRequest.write on the recordset `ids`
write(db, ids, vals, uid, day) ==
    IF ~db.ok THEN db
    ELSE
    LET eqs1 == IF Has(vals, "stage") /\ vals["stage"] = "scrap"
                THEN scrap_cascade(ids, db.requests, db.equipment)
                ELSE db.equipment
        v == write_vals(ids, vals, uid, db.requests, day)
        reqs1 == [r \in Ids(db.requests) |->
                    IF r \in Range(ids) THEN orm_write(db.requests[r], v, day)
                    ELSE db.requests[r]]
        raises == /\ (Has(v, "schedule_date") \/ Has(v, "close_date"))
                  /\ \E r \in Range(ids) : check_dates_raises(reqs1[r])
    IN  IF raises THEN Db(FALSE, db.requests, db.equipment)
        ELSE Db(TRUE, reqs1, eqs1)

\* _get_overdue_requests on the day `day`: a search over the active
\* requests; a NULL schedule_date matches no '<' comparison
get_overdue_requests(reqs, day) ==
    {r \in Ids(reqs) :
        /\ reqs[r].active
        /\ reqs[r].schedule_date # 0
        /\ reqs[r].schedule_date < day
        /\ reqs[r].stage \notin {"repaired", "scrap"}}

\* ---------------------------------------------------------------- report
\* the rows of the LEFT JOIN for request r: one per equipment whose id is
\* r.equipment_id, or one with no equipment (0) when there is none
joined(req, eqs) ==
    IF \E e \in DOMAIN eqs : e = req.equipment_id
    THEN {e \in DOMAIN eqs : e = req.equipment_id}
    ELSE {0}

\* the row with the category stored on the request
report_row_request_category(r, req, e, eqs) ==
    [ id |-> r,
      equipment_id |-> req.equipment_id,
      category_id |-> req.category_id,
      joined_equipment |-> e,
      maintenance_team_id |-> req.maintenance_team_id,
      technician_id |-> req.technician_id,
      maintenance_type |-> req.maintenance_type,
      stage |-> req.stage,
      request_date |-> req.request_date,
      schedule_date |-> req.schedule_date,
      close_date |-> req.close_date,
      duration |-> req.duration,
      cost_parts |-> req.cost_parts,
      cost_labor |-> req.cost_labor,
      cost_total |-> req.cost_total,
      resolution_days |-> IF req.close_date # 0 /\ req.request_date # 0
                          THEN {req.close_date - req.request_date}
                          ELSE {},
      request_count |-> 1 ]

\* one row of the view; a NULL resolution_days is {}, a value n is {n}
report_row(r, req, e, eqs) ==
    [ id |-> r,
      equipment_id |-> req.equipment_id,
      category_id |-> IF e = 0 THEN 0 ELSE eqs[e].category_id,
      joined_equipment |-> e,
      maintenance_team_id |-> req.maintenance_team_id,
      technician_id |-> req.technician_id,
      maintenance_type |-> req.maintenance_type,
      stage |-> req.stage,
      request_date |-> req.request_date,
      schedule_date |-> req.schedule_date,
      close_date |-> req.close_date,
      duration |-> req.duration,
      cost_parts |-> req.cost_parts,
      cost_labor |-> req.cost_labor,
      cost_total |-> req.cost_total,
      resolution_days |-> IF req.close_date # 0 /\ req.request_date # 0
                          THEN {req.close_date - req.request_date}
                          ELSE {},
      request_count |-> 1 ]

\* the view without its WHERE clause
report_rows_unfiltered(reqs, eqs) ==
    UNION {{report_row(r, reqs[r], e, eqs) : e \in joined(reqs[r], eqs)} :
              r \in Ids(reqs)}

\* MaintenanceReport.init: the rows the SQL view holds for a database state
report_rows(reqs, eqs) ==
    UNION {{report_row(r, reqs[r], e, eqs) : e \in joined(reqs[r], eqs)} :
              r \in {x \in Ids(reqs) : reqs[x].active}}

\* ------------------------------------------------------------- the state
\* field defaults of maintenance.equipment, stored computed fields included
EquipmentDefaults ==
    [ active |-> TRUE,
      state |-> "operational",
      category_id |-> 0,
      maintenance_team_id |-> 0,
      technician_id |-> 0,
      warranty_date |-> 0,
      warranty_alert |-> FALSE,
      days_to_warranty_end |-> 0,
      warranty_state |-> "none",
      message_ids |-> <<>> ]

\* the equipment register: two machines created with no warranty date
InitEquipment ==
    [e \in Equipments |->
        Override(EquipmentDefaults,
                 [ category_id |-> IF e = 1 THEN 1 ELSE 0,
                   maintenance_team_id |-> IF e = 1 THEN 2 ELSE 1,
                   technician_id |-> IF e = 1 THEN 1 ELSE 0 ])]

NoForm == [equipment_id |-> 0, category_id |-> 0, maintenance_team_id |-> 0, technician_id |-> 0]

NoOp == [op |-> "init", ids |-> <<>>, vals |-> EmptyVals, uid |-> 0, ok |-> TRUE]

Init ==
    /\ today = StartDay
    /\ equipment = InitEquipment
    /\ requests = <<>>
    /\ form = NoForm
    /\ last = NoOp

\* the outcome of an operation becomes the database state
Commit(res, op, ids, vals, uid) ==
    /\ requests' = res.requests
    /\ equipment' = res.equipment
    /\ last' = [op |-> op, ids |-> ids, vals |-> vals, uid |-> uid, ok |-> res.ok]

\* an exception leaving an operation undoes what the operation wrote
Atomic(db, res) == IF res.ok THEN res ELSE Db(FALSE, db.requests, db.equipment)

Now == Db(TRUE, requests, equipment)

MessagesBounded(res) ==
    \A e \in Equipments : Len(res.equipment[e].message_ids) <= MaxMessages

\* ------------------------------------------------------ action methods
\* start that puts the equipment of the request under maintenance
RECURSIVE start_loop_marks_equipment(_, _, _, _)
start_loop_marks_equipment(db, ids, uid, day) ==
    IF ids = <<>> \/ ~db.ok THEN db
    ELSE LET r == Head(ids)
             req == db.requests[r]
             db1 == IF req.stage = "new"
                    THEN write(db, <<r>>,
                               [stage |-> "in_progress",
                                technician_id |-> IF req.technician_id # 0
                                                  THEN req.technician_id ELSE uid],
                               uid, day)
                    ELSE db
             eqs1 == IF req.stage = "new"
                     THEN [db1.equipment EXCEPT ![req.equipment_id].state = "maintenance"]
                     ELSE db1.equipment
         IN  start_loop_marks_equipment(Db(db1.ok, db1.requests, eqs1), Tail(ids), uid, day)

\* start with no test of the stage
RECURSIVE start_loop_any_stage(_, _, _, _)
start_loop_any_stage(db, ids, uid, day) ==
    IF ids = <<>> \/ ~db.ok THEN db
    ELSE LET r == Head(ids)
             req == db.requests[r]
             db1 == write(db, <<r>>,
                          [stage |-> "in_progress",
                           technician_id |-> IF req.technician_id # 0
                                             THEN req.technician_id ELSE uid],
                          uid, day)
         IN  start_loop_any_stage(db1, Tail(ids), uid, day)

\* start that assigns the acting user whether or not a technician is set
RECURSIVE start_loop_always_assigns(_, _, _, _)
start_loop_always_assigns(db, ids, uid, day) ==
    IF ids = <<>> \/ ~db.ok THEN db
    ELSE LET r == Head(ids)
             db1 == IF db.requests[r].stage = "new"
                    THEN write(db, <<r>>, [stage |-> "in_progress", technician_id |-> uid],
                               uid, day)
                    ELSE db
         IN  start_loop_always_assigns(db1, Tail(ids), uid, day)

\* action_start_maintenance: for request in self: if stage == 'new': write(...)
RECURSIVE start_loop(_, _, _, _)
start_loop(db, ids, uid, day) ==
    IF ids = <<>> \/ ~db.ok THEN db
    ELSE LET r == Head(ids)
             req == db.requests[r]
             db1 == IF req.stage = "new"
                    THEN write(db, <<r>>,
                               [stage |-> "in_progress",
                                technician_id |-> IF req.technician_id # 0
                                                  THEN req.technician_id ELSE uid],
                               uid, day)
                    ELSE db
         IN  start_loop(db1, Tail(ids), uid, day)

\* complete that records no close date
RECURSIVE complete_loop_leaves_open(_, _, _, _)
complete_loop_leaves_open(db, ids, uid, day) ==
    IF ids = <<>> \/ ~db.ok THEN db
    ELSE LET r == Head(ids)
             req == db.requests[r]
             db1 == IF req.stage = "in_progress"
                    THEN write(db, <<r>>, [stage |-> "repaired", close_date |-> 0], uid, day)
                    ELSE db
         IN  complete_loop_leaves_open(db1, Tail(ids), uid, day)

\* complete that skips a request with no duration recorded
RECURSIVE complete_loop_requires_duration(_, _, _, _)
complete_loop_requires_duration(db, ids, uid, day) ==
    IF ids = <<>> \/ ~db.ok THEN db
    ELSE LET r == Head(ids)
             req == db.requests[r]
             db1 == IF req.stage = "in_progress" /\ req.duration # 0
                    THEN write(db, <<r>>, [stage |-> "repaired", close_date |-> day], uid, day)
                    ELSE db
         IN  complete_loop_requires_duration(db1, Tail(ids), uid, day)

\* action_complete_maintenance: for request in self: if stage == 'in_progress': write(...)
RECURSIVE complete_loop(_, _, _, _)
complete_loop(db, ids, uid, day) ==
    IF ids = <<>> \/ ~db.ok THEN db
    ELSE LET r == Head(ids)
             req == db.requests[r]
             db1 == IF req.stage = "in_progress"
                    THEN write(db, <<r>>, [stage |-> "repaired", close_date |-> day], uid, day)
                    ELSE db
         IN  complete_loop(db1, Tail(ids), uid, day)

\* scrap that also closes the other requests of the same equipment
RECURSIVE scrap_loop_closing_siblings(_, _, _, _)
scrap_loop_closing_siblings(db, ids, uid, day) ==
    IF ids = <<>> \/ ~db.ok THEN db
    ELSE LET e == db.requests[Head(ids)].equipment_id
             db1 == write(db, <<Head(ids)>>, [stage |-> "scrap"], uid, day)
             reqs1 == [r \in Ids(db1.requests) |->
                         IF db1.requests[r].equipment_id = e
                         THEN [db1.requests[r] EXCEPT !.stage = "scrap"]
                         ELSE db1.requests[r]]
         IN  scrap_loop_closing_siblings(Db(db1.ok, reqs1, db1.equipment), Tail(ids), uid, day)

\* action_scrap_equipment: for request in self: request.write({'stage': 'scrap'})
RECURSIVE scrap_loop(_, _, _, _)
scrap_loop(db, ids, uid, day) ==
    IF ids = <<>> \/ ~db.ok THEN db
    ELSE scrap_loop(write(db, <<Head(ids)>>, [stage |-> "scrap"], uid, day),
                    Tail(ids), uid, day)

action_start_maintenance(db, ids, uid, day) == Atomic(db, start_loop(db, ids, uid, day))

action_complete_maintenance(db, ids, uid, day) == Atomic(db, complete_loop(db, ids, uid, day))

action_scrap_equipment(db, ids, uid, day) == Atomic(db, scrap_loop(db, ids, uid, day))

\* reset that leaves the close date in place
action_reset_to_new_keeps_close_date(db, ids, uid, day) ==
    write(db, ids, [stage |-> "new"], uid, day)

\* action_reset_to_new: one write on the whole recordset
action_reset_to_new(db, ids, uid, day) ==
    write(db, ids, [stage |-> "new", close_date |-> 0], uid, day)

\* ------------------------------------------- equipment action methods
\* mark-scrapped that sets the state and leaves the equipment active
RECURSIVE action_set_scrapped_state_only(_, _)
action_set_scrapped_state_only(db, ids) ==
    IF ids = <<>> THEN db
    ELSE LET e == Head(ids)
             eqs1 == [db.equipment EXCEPT ![e] =
                        [@ EXCEPT !.state = "scrapped",
                                  !.message_ids = Append(@, [kind |-> "scrapped", request |-> 0])]]
         IN  action_set_scrapped_state_only(Db(TRUE, db.requests, eqs1), Tail(ids))

\* action_set_scrapped: for equipment in self: write(...), message_post(...)
RECURSIVE action_set_scrapped(_, _)
action_set_scrapped(db, ids) ==
    IF ids = <<>> THEN db
    ELSE LET e == Head(ids)
             eqs1 == [db.equipment EXCEPT ![e] =
                        [@ EXCEPT !.state = "scrapped",
                                  !.active = FALSE,
                                  !.message_ids = Append(@, [kind |-> "scrapped", request |-> 0])]]
         IN  action_set_scrapped(Db(TRUE, db.requests, eqs1), Tail(ids))

\* mark-operational that sets the state and leaves the equipment archived
action_set_operational_state_only(db, ids) ==
    Db(TRUE, db.requests,
       [e \in Equipments |->
           IF e \in Range(ids)
           THEN [db.equipment[e] EXCEPT !.state = "operational"]
           ELSE db.equipment[e]])

\* action_set_operational: one write on the whole recordset
action_set_operational(db, ids) ==
    Db(TRUE, db.requests,
       [e \in Equipments |->
           IF e \in Range(ids)
           THEN [db.equipment[e] EXCEPT !.state = "operational", !.active = TRUE]
           ELSE db.equipment[e]])

\* the alert posted on the first selected equipment only
send_alerts_first_only(db, sel) ==
    IF sel = <<>> THEN Db(FALSE, db.requests, db.equipment)
    ELSE Db(TRUE, db.requests,
            [db.equipment EXCEPT ![Head(sel)] =
               [@ EXCEPT !.message_ids = Append(@, [kind |-> "warranty_alert", request |-> 0])]])

\* WarrantyAlertWizard.action_send_alerts with equipment_ids = sel
action_send_alerts(db, sel) ==
    IF sel = <<>> THEN Db(FALSE, db.requests, db.equipment)
    ELSE Db(TRUE, db.requests,
            [e \in Equipments |->
                IF e \in Range(sel)
                THEN [db.equipment[e] EXCEPT
                        !.message_ids = Append(@, [kind |-> "warranty_alert", request |-> 0])]
                ELSE db.equipment[e]])

\* ---------------------------------------------------------- data entry
\* the auto-fill that leaves the technician in place when the equipment is cleared
onchange_equipment_id_keeps_technician(f, eqs) ==
    IF f.equipment_id # 0
    THEN [f EXCEPT !.category_id = eqs[f.equipment_id].category_id,
                   !.maintenance_team_id = eqs[f.equipment_id].maintenance_team_id,
                   !.technician_id = eqs[f.equipment_id].technician_id]
    ELSE [f EXCEPT !.category_id = 0,
                   !.maintenance_team_id = 0]

\* _onchange_equipment_id on the form record
onchange_equipment_id(f, eqs) ==
    IF f.equipment_id # 0
    THEN [f EXCEPT !.category_id = eqs[f.equipment_id].category_id,
                   !.maintenance_team_id = eqs[f.equipment_id].maintenance_team_id,
                   !.technician_id = eqs[f.equipment_id].technician_id]
    ELSE [f EXCEPT !.category_id = 0,
                   !.maintenance_team_id = 0,
                   !.technician_id = 0]

\* _onchange_maintenance_team_id on the form record
onchange_maintenance_team_id(f) ==
    IF f.technician_id # 0 /\ f.maintenance_team_id # 0
       /\ f.technician_id \notin member_ids(f.maintenance_team_id)
    THEN [f EXCEPT !.technician_id = 0]
    ELSE f

\* ------------------------------------------------------------- inputs
\* recordsets an operation is called on: one record, or two in either order
Batches == {<<r>> : r \in Ids(requests)}
           \cup {<<r, s>> : <<r, s>> \in {p \in Ids(requests) \X Ids(requests) : p[1] # p[2]}}

\* the payload the form sends once equipment e is selected on a blank form
AutoFilled(e) == onchange_equipment_id([NoForm EXCEPT !.equipment_id = e], equipment)

\* ------------------------------------------------------------ actions
Done(op, ids, vals, uid, ok) == [op |-> op, ids |-> ids, vals |-> vals, uid |-> uid, ok |-> ok]

AdvanceDay ==
    /\ today < StartDay + MaxDays
    /\ today' = today + 1
    /\ last' = Done("advance", <<>>, EmptyVals, 0, TRUE)
    /\ UNCHANGED <<equipment, requests, form>>

FormSetEquipment(e) ==
    /\ form' = onchange_equipment_id([form EXCEPT !.equipment_id = e], equipment)
    /\ last' = Done("onchange_equipment", <<>>, [equipment_id |-> e], 0, TRUE)
    /\ UNCHANGED <<today, equipment, requests>>

FormSetTeam(t) ==
    /\ form' = onchange_maintenance_team_id([form EXCEPT !.maintenance_team_id = t])
    /\ last' = Done("onchange_team", <<>>, [maintenance_team_id |-> t], 0, TRUE)
    /\ UNCHANGED <<today, equipment, requests>>

Create(vals) ==
    /\ Len(requests) < MaxRequests
    /\ Commit(create(Now, vals, today), "create", <<Len(requests) + 1>>, vals, 0)
    /\ UNCHANGED <<today, form>>

Write(ids, vals, uid) ==
    /\ LET res == write(Now, ids, vals, uid, today)
       IN  /\ MessagesBounded(res)
           /\ Commit(res, "write", ids, vals, uid)
    /\ UNCHANGED <<today, form>>

Start(ids, uid) ==
    /\ Commit(action_start_maintenance(Now, ids, uid, today), "start", ids, EmptyVals, uid)
    /\ UNCHANGED <<today, form>>

Complete(ids) ==
    /\ Commit(action_complete_maintenance(Now, ids, 0, today), "complete", ids,
              EmptyVals, 0)
    /\ UNCHANGED <<today, form>>

Scrap(ids) ==
    /\ LET res == action_scrap_equipment(Now, ids, 0, today)
       IN  /\ MessagesBounded(res)
           /\ Commit(res, "scrap", ids, EmptyVals, 0)
    /\ UNCHANGED <<today, form>>

ResetToNew(ids) ==
    /\ Commit(action_reset_to_new(Now, ids, 0, today), "reset", ids, EmptyVals, 0)
    /\ UNCHANGED <<today, form>>

SetScrapped(ids) ==
    /\ LET res == action_set_scrapped(Now, ids)
       IN  /\ MessagesBounded(res)
           /\ Commit(res, "set_scrapped", ids, EmptyVals, 0)
    /\ UNCHANGED <<today, form>>

SetOperational(ids) ==
    /\ Commit(action_set_operational(Now, ids), "set_operational", ids, EmptyVals, 0)
    /\ UNCHANGED <<today, form>>

SendAlerts(sel) ==
    /\ LET res == action_send_alerts(Now, sel)
       IN  /\ MessagesBounded(res)
           /\ Commit(res, "send_alerts", sel, EmptyVals, 0)
    /\ UNCHANGED <<today, form>>

\* ------------------------------------------- the request lifecycle
\* requests entered against either equipment, moved through the stages by
\* the buttons and by generic stage writes (kanban drag and drop)
StageInputs == {[stage |-> s] : s \in Stages}

\* env.uid is read only by the in_progress branch of write
Actors(vals) == IF Has(vals, "stage") /\ vals["stage"] = "in_progress" THEN Users ELSE {1}

Next ==
    \/ \E e \in Equipments : Create(AutoFilled(e))
    \/ \E ids \in Batches, vals \in StageInputs : \E uid \in Actors(vals) : Write(ids, vals, uid)
    \/ \E ids \in Batches, uid \in Users : Start(ids, uid)
    \/ \E ids \in Batches : Complete(ids)
    \/ \E ids \in Batches : Scrap(ids)
    \/ \E ids \in Batches : ResetToNew(ids)

Spec == Init /\ [][Next]_vars

\* ---------------------------------------------------- requests and dates
\* requests entered against equipment 1 with the date fields a user may
\* type, while the calendar advances
DatedCreateInputs ==
    {EmptyVals,
     [maintenance_type |-> "preventive"],
     [maintenance_type |-> "preventive", request_date |-> today - 1],
     [schedule_date |-> today - 1],
     [schedule_date |-> today, duration |-> 2],
     [schedule_date |-> today + 1],
     [schedule_date |-> today + 1, close_date |-> today]}

DatedWriteInputs ==
    {[schedule_date |-> today + 1],
     [stage |-> "scrap", close_date |-> today - 1],
     [stage |-> "repaired"]}

NextDates ==
    \/ AdvanceDay
    \/ \E extra \in DatedCreateInputs : Create(Override(AutoFilled(1), extra))
    \/ \E ids \in Batches, vals \in DatedWriteInputs : Write(ids, vals, 1)
    \/ \E ids \in Batches : Start(ids, 1)
    \/ \E ids \in Batches : Complete(ids)

SpecDates == Init /\ [][NextDates]_vars

\* ------------------------------------------------- the data-entry form
\* a user fills the request form while equipment 1 is being edited
\* an equipment write that pushes the new values into the requests of the equipment
EquipmentWrite_refreshing_requests(e, vals) ==
    /\ equipment' = [equipment EXCEPT ![e] = equipment_write(@, vals, today)]
    /\ requests' = [r \in Ids(requests) |->
                       IF requests[r].equipment_id = e
                       THEN Override(requests[r], vals) ELSE requests[r]]
    /\ last' = Done("equipment_write", <<e>>, vals, 0, TRUE)
    /\ UNCHANGED <<today, form>>

EquipmentWrite(e, vals) ==
    /\ equipment' = [equipment EXCEPT ![e] = equipment_write(@, vals, today)]
    /\ last' = Done("equipment_write", <<e>>, vals, 0, TRUE)
    /\ UNCHANGED <<today, requests, form>>

EquipmentInputs ==
    {[category_id |-> c] : c \in Categories}
    \cup {[maintenance_team_id |-> t, technician_id |-> 0] : t \in Teams}
    \cup {[technician_id |-> u] : u \in Users}

NextForm ==
    \/ \E e \in Equipments \cup {0} : FormSetEquipment(e)
    \/ \E t \in Teams : FormSetTeam(t)
    \/ \E vals \in EquipmentInputs : EquipmentWrite(1, vals)

SpecForm == Init /\ [][NextForm]_vars

\* ------------------------------------------------ the warranty register
\* warranty dates are entered and corrected while the calendar advances
WarrantyInputs ==
    {[warranty_date |-> d] :
        d \in {0, today - 1, today, today + 1,
               today + WarrantyAlertDays, today + WarrantyAlertDays + 1}}
    \cup {[category_id |-> 2]}

NextWarranty ==
    \/ AdvanceDay
    \/ \E e \in Equipments, vals \in WarrantyInputs : EquipmentWrite(e, vals)

SpecWarranty == Init /\ [][NextWarranty]_vars

\* ------------------------------------------------------ the cost fields
\* hours, parts and the hourly rate are entered at creation and edited later
CostCreateInputs ==
    {EmptyVals,
     [duration |-> 3, cost_parts |-> 20],
     [duration |-> 2, cost_labor_rate |-> 0]}

CostWriteInputs ==
    {[duration |-> 3],
     [cost_parts |-> 20],
     [cost_labor_rate |-> 50],
     [duration |-> 1, cost_parts |-> 0, cost_labor_rate |-> 10],
     [stage |-> "in_progress"]}

NextCosts ==
    \/ \E extra \in CostCreateInputs : Create(Override(AutoFilled(1), extra))
    \/ \E ids \in Batches, vals \in CostWriteInputs : Write(ids, vals, 1)

SpecCosts == Init /\ [][NextCosts]_vars

\* ---------------------------------------------- the equipment register
\* equipment is scrapped by a request or by hand, restored by hand and
\* alerted on from the warranty wizard
EquipmentBatches == {<<1>>, <<2>>, <<1, 2>>}

Selections == {<<>>} \cup EquipmentBatches

NextEquipment ==
    \/ \E e \in Equipments : Create(AutoFilled(e))
    \/ \E ids \in Batches : Write(ids, [stage |-> "scrap"], 1)
    \/ \E ids \in Batches : ResetToNew(ids)
    \/ \E ids \in EquipmentBatches : SetScrapped(ids)
    \/ \E ids \in EquipmentBatches : SetOperational(ids)
    \/ \E sel \in Selections : SendAlerts(sel)

SpecEquipment == Init /\ [][NextEquipment]_vars

\* ------------------------------------------------------------ reporting
\* requests are entered (equipment_id is required), closed, archived and
\* restored while the calendar advances; the view is read in every state
ReportCreateInputs ==
    {EmptyVals,
     [request_date |-> today - 1],
     [close_date |-> today]}

ReportWriteInputs ==
    {[active |-> FALSE],
     [active |-> TRUE],
     [close_date |-> today],
     [stage |-> "new", close_date |-> 0]}

NextReport ==
    \/ AdvanceDay
    \/ \E e \in Equipments, extra \in ReportCreateInputs :
          Create(Override(AutoFilled(e), extra))
    \/ \E ids \in Batches, vals \in ReportWriteInputs : Write(ids, vals, 1)

SpecReport == Init /\ [][NextReport]_vars

\* ------------------------------------------- requests and their equipment
\* requests are entered from the form against either equipment, and
\* equipment 1 is edited afterwards; the report is read in every state
NextSnapshot ==
    \/ \E e \in Equipments : Create(AutoFilled(e))
    \/ \E vals \in EquipmentInputs : EquipmentWrite(1, vals)
    \/ \E ids \in Batches : Start(ids, 2)

SpecSnapshot == Init /\ [][NextSnapshot]_vars

\* ------------------------------------------ scrap and the equipment link
\* requests are entered in stage 'new' or directly in stage 'scrap', moved
\* to another equipment, scrapped (with or without a move in the same
\* payload), and equipment is restored by hand
ReassignInputs ==
    {[stage |-> "scrap"]}
    \cup {[equipment_id |-> e] : e \in Equipments}
    \cup {[stage |-> "scrap", equipment_id |-> e] : e \in Equipments}

NextReassign ==
    \/ \E e \in Equipments, extra \in {EmptyVals, [stage |-> "scrap"]} :
          Create(Override(AutoFilled(e), extra))
    \/ \E ids \in Batches, vals \in ReassignInputs : Write(ids, vals, 1)
    \/ \E ids \in EquipmentBatches : SetOperational(ids)

SpecReassign == Init /\ [][NextReassign]_vars

\* ------------------------------------------------- the buttons alone
\* requests are entered in stage 'new' and driven only by the four request
\* buttons; equipment is scrapped and restored by hand
NextButtons ==
    \/ \E e \in Equipments : Create(AutoFilled(e))
    \/ \E ids \in Batches : Start(ids, 1)
    \/ \E ids \in Batches : Complete(ids)
    \/ \E ids \in Batches : Scrap(ids)
    \/ \E ids \in Batches : ResetToNew(ids)
    \/ \E ids \in EquipmentBatches : SetScrapped(ids)
    \/ \E ids \in EquipmentBatches : SetOperational(ids)

SpecButtons == Init /\ [][NextButtons]_vars

\* =============================================================== claims
StageOf(vals) == IF Has(vals, "stage") THEN vals["stage"] ELSE "none"

\* the last operation asked for stage 'scrap': the scrap button or a generic write
ScrapAsked(l) == l.op = "scrap" \/ (l.op = "write" /\ StageOf(l.vals) = "scrap")

Scrapped(eq) == ~eq.active /\ eq.state = "scrapped"

BothDatesSet(req) == req.schedule_date # 0 /\ req.close_date # 0

\* C1: a successful update that sets stage 'scrap' on a recordset (scrap
\* button or generic write, one record or several) leaves the equipment of
\* every request of the recordset inactive and scrapped.
C1_ScrapDeactivatesEquipment ==
    [][(ScrapAsked(last') /\ last'.ok) =>
          \A r \in Range(last'.ids) : Scrapped(equipment'[requests[r].equipment_id])]_vars

C1_Witness ==
    /\ last.op = "write" /\ StageOf(last.vals) = "scrap" /\ last.ok
    /\ Len(last.ids) = 2
    /\ requests[1].equipment_id # requests[2].equipment_id
    /\ \A e \in Equipments : Scrapped(equipment[e])

\* C2: asking for scrap on a request whose equipment is already scrapped
\* raises no error and leaves that equipment (active, state, audit history)
\* exactly as it was.
C2_RescrapIsNoOp ==
    [][ScrapAsked(last') =>
          /\ last'.ok
          /\ \A r \in Range(last'.ids) :
                LET e == requests[r].equipment_id
                IN  Scrapped(equipment[e]) => equipment'[e] = equipment[e]]_vars

C4_StartAssignsActingUser ==
    [][last'.op = "start" =>
          /\ last'.ok
          /\ \A r \in Range(last'.ids) :
                requests[r].stage = "new" =>
                   /\ requests'[r].stage = "in_progress"
                   /\ requests'[r].technician_id =
                         IF requests[r].technician_id = 0 THEN last'.uid
                         ELSE requests[r].technician_id]_vars

C4_Witness ==
    /\ last.op = "start" /\ last.ok /\ last.uid = 2
    /\ Len(last.ids) = 2
    /\ \A r \in Range(last.ids) : requests[r].stage = "in_progress"
    /\ \E r \in Range(last.ids) : requests[r].technician_id = 2
    /\ \E r \in Range(last.ids) : requests[r].technician_id = 1

\* C5: every stored request with both schedule_date and close_date set has
\* close_date >= schedule_date; a create or write that would break this is
\* rejected.
C5_CloseNotBeforeSchedule ==
    \A r \in Ids(requests) :
       BothDatesSet(requests[r]) => requests[r].close_date >= requests[r].schedule_date

C5_Witness ==
    /\ last.op \in {"create", "write"} /\ ~last.ok
    /\ \E r \in Ids(requests) : BothDatesSet(requests[r])

C7_OverdueTracksToday ==
    \A r \in Ids(requests) :
       LET req == requests[r]
           overdue == /\ req.schedule_date # 0
                      /\ req.schedule_date < today
                      /\ req.stage \notin {"repaired", "scrap"}
       IN  /\ req.is_overdue = overdue
           /\ req.days_overdue = IF overdue THEN today - req.schedule_date ELSE 0

C10_TechnicianInTeam ==
    \A r \in Ids(requests) :
       (requests[r].technician_id # 0 /\ requests[r].maintenance_team_id # 0) =>
          requests[r].technician_id \in member_ids(requests[r].maintenance_team_id)

\* C11: when the warranty fields are computed, with delta = warranty_date -
\* today: no warranty_date gives state 'none', no alert and 0 days; delta <= 0
\* gives 'expired', 0 < delta <= 30 'expiring', delta > 30 'valid';
\* days_to_warranty_end = delta and the alert is raised exactly when
\* delta <= 30, an expired warranty included.
C11_WarrantyFieldsFollowDelta ==
    (last.op = "equipment_write" /\ Has(last.vals, "warranty_date")) =>
       LET eq == equipment[last.ids[1]]
           delta == eq.warranty_date - today
       IN  IF eq.warranty_date = 0
           THEN /\ eq.warranty_state = "none"
                /\ ~eq.warranty_alert
                /\ eq.days_to_warranty_end = 0
           ELSE /\ eq.days_to_warranty_end = delta
                /\ eq.warranty_alert = (delta <= 30)
                /\ (delta <= 0) => eq.warranty_state = "expired"
                /\ (0 < delta /\ delta <= 30) => eq.warranty_state = "expiring"
                /\ (delta > 30) => eq.warranty_state = "valid"

C11_Witness ==
    /\ last.op = "equipment_write" /\ Has(last.vals, "warranty_date")
    /\ equipment[last.ids[1]].warranty_state = "expired"
    /\ equipment[last.ids[1]].warranty_alert
    /\ equipment[last.ids[1]].days_to_warranty_end < 0
    /\ \E e \in Equipments : equipment[e].warranty_state = "valid"

\* C12: after any change of duration, cost_parts or cost_labor_rate (at
\* creation or by a later write) cost_labor = duration * cost_labor_rate and
\* cost_total = cost_parts + cost_labor.
C12_CostsFollowInputs ==
    \A r \in Ids(requests) :
       /\ requests[r].cost_labor = requests[r].duration * requests[r].cost_labor_rate
       /\ requests[r].cost_total = requests[r].cost_parts + requests[r].cost_labor

C12_Witness ==
    /\ last.op = "write" /\ last.ok /\ Has(last.vals, "cost_labor_rate")
    /\ \E r \in Range(last.ids) :
          /\ requests[r].duration = 3
          /\ requests[r].cost_parts = 20
          /\ requests[r].cost_labor_rate = 50
          /\ requests[r].cost_labor = 150
          /\ requests[r].cost_total = 170
    /\ \E r \in Ids(requests) : requests[r].cost_labor_rate # 50

\* C13: after any sequence of request creations and stage changes every
\* team's open_request_count is the number of requests referencing the team
\* in stage 'new' or 'in_progress', and its todo_request_count the number of
\* those in stage 'new'.
C13_TeamCountsMatchRequests ==
    \A t \in Teams :
       LET of_team == {r \in Ids(requests) : requests[r].maintenance_team_id = t}
       IN  /\ compute_request_counts(t).open_request_count =
                 Cardinality({r \in of_team : requests[r].stage \in {"new", "in_progress"}})
           /\ compute_request_counts(t).todo_request_count =
                 Cardinality({r \in of_team : requests[r].stage = "new"})

\* C14 (as claimed): once an equipment is scrapped and inactive it is
\* inactive in every later state, whatever operations follow.
C14_ScrapIsTerminal ==
    [][\A e \in Equipments : Scrapped(equipment[e]) => ~equipment'[e].active]_vars

\* C14 (amended): a scrapped, inactive equipment stays scrapped and inactive
\* through every operation except the manual mark-operational action
\* applied to it, which makes it operational and active again.
C14_ScrapUntilMarkedOperational ==
    [][\A e \in Equipments :
          Scrapped(equipment[e]) =>
             IF last'.op = "set_operational" /\ e \in Range(last'.ids)
             THEN equipment'[e].active /\ equipment'[e].state = "operational"
             ELSE Scrapped(equipment'[e])]_vars

C14_Witness ==
    /\ last.op = "send_alerts" /\ last.ok
    /\ \E e \in Range(last.ids) :
          /\ Scrapped(equipment[e])
          /\ equipment[e].message_ids[1].kind = "scrap"
    /\ \E r \in Ids(requests) :
          requests[r].stage = "new" /\ Scrapped(equipment[requests[r].equipment_id])

C16_ReportRowsAreActiveRequests ==
    LET rows == report_rows(requests, equipment)
    IN  /\ \A r \in Ids(requests) :
              Cardinality({row \in rows : row.id = r}) = IF requests[r].active THEN 1 ELSE 0
        /\ \A row \in rows :
              /\ row.id \in Ids(requests)
              /\ row.resolution_days =
                    IF requests[row.id].close_date # 0 /\ requests[row.id].request_date # 0
                    THEN {requests[row.id].close_date - requests[row.id].request_date}
                    ELSE {}

C16_Witness ==
    /\ \E r \in Ids(requests) : ~requests[r].active /\ requests[r].close_date # 0
    /\ \E row \in report_rows(requests, equipment) :
          row.resolution_days = {2} /\ row.joined_equipment = row.equipment_id
    /\ Cardinality(report_rows(requests, equipment)) = 1

\* C17: resetToNew on requests in any stage succeeds, sets stage 'new' and
\* clears close_date on each, and changes no equipment: a request reset from
\* 'scrap' leaves the equipment it scrapped inactive and scrapped.
C17_ResetClearsAndKeepsEquipment ==
    [][last'.op = "reset" =>
          /\ last'.ok
          /\ \A r \in Range(last'.ids) :
                requests'[r].stage = "new" /\ requests'[r].close_date = 0
          /\ equipment' = equipment]_vars

C17_Witness ==
    /\ last.op = "reset" /\ last.ok /\ Len(last.ids) = 2
    /\ \A r \in Range(last.ids) : requests[r].stage = "new" /\ requests[r].close_date = 0
    /\ \E r \in Range(last.ids) :
          LET eq == equipment[requests[r].equipment_id]
          IN  /\ Scrapped(eq)
              /\ \E i \in DOMAIN eq.message_ids : eq.message_ids[i].request = r
    /\ \E e \in Equipments : equipment[e].active

\* C18: a batch generic write of stage 'in_progress' with no technician in
\* the payload assigns the acting user to every request of the batch that has
\* no technician and leaves the technician of every request that already has
\* one unchanged.
C18_BatchStartKeepsTechnicians ==
    [][(/\ last'.op = "write" /\ last'.ok
        /\ StageOf(last'.vals) = "in_progress"
        /\ ~Has(last'.vals, "technician_id")) =>
          \A r \in Range(last'.ids) :
             requests'[r].technician_id =
                IF requests[r].technician_id = 0 THEN last'.uid
                ELSE requests[r].technician_id]_vars

\* C19: start applied to a request whose stage is not 'new', and complete
\* applied to a request whose stage is not 'in_progress', change no field of
\* that request and no equipment; a call whose requests are all of this kind
\* raises no error and changes nothing.
C19_WrongStageIsSkipped ==
    [][last'.op \in {"start", "complete"} =>
          LET due == IF last'.op = "start" THEN "new" ELSE "in_progress"
              skipped == {r \in Range(last'.ids) : requests[r].stage # due}
          IN  /\ equipment' = equipment
              /\ \A r \in skipped : requests'[r] = requests[r]
              /\ (skipped = Range(last'.ids)) => (last'.ok /\ requests' = requests)]_vars

C19_Witness ==
    /\ last.op = "complete" /\ last.ok /\ Len(last.ids) = 2
    /\ \E r \in Range(last.ids) : requests[r].stage = "scrap"
    /\ \E r \in Range(last.ids) : requests[r].stage = "new"
    /\ \E e \in Equipments : Scrapped(equipment[e])

\* C20: in every state reached through equipment creation, the request
\* scrap transition, the manual mark-scrapped action and the manual
\* mark-operational action, an equipment is inactive exactly when its state
\* is 'scrapped'.
C20_InactiveIffScrapped ==
    \A e \in Equipments : ~equipment[e].active <=> equipment[e].state = "scrapped"

C20_Witness ==
    /\ last.op = "set_operational" /\ Len(last.ids) = 1
    /\ LET eq == equipment[last.ids[1]]
       IN  /\ eq.active /\ eq.state = "operational"
           /\ Len(eq.message_ids) = 2
           /\ eq.message_ids[1].kind = "scrap"
           /\ eq.message_ids[2].kind = "scrapped"
    /\ \E e \in Equipments : ~equipment[e].active /\ equipment[e].state = "scrapped"

\* C21: after a request's category, team and technician were filled from
\* its equipment, changing that equipment's category, default team or
\* default technician leaves every existing request unchanged.
C21_AutoFillCopiesOnce ==
    [][last'.op = "equipment_write" => requests' = requests]_vars

C21_Witness ==
    /\ last.op = "equipment_write"
    /\ \E r \in Ids(requests) :
          LET eq == equipment[requests[r].equipment_id]
          IN  /\ requests[r].equipment_id = last.ids[1]
              /\ requests[r].category_id = 1 /\ eq.category_id = 2
              /\ requests[r].maintenance_team_id = 2 /\ eq.maintenance_team_id = 1
              /\ requests[r].technician_id = 1 /\ eq.technician_id # 1

\* C29: each report row's category is the current category of the equipment
\* the request references, not the category stored on the request: after the
\* equipment's category changes the row follows the equipment while the
\* request's own category stays as it was.
C29_ReportCategoryFollowsEquipment ==
    [][/\ \A row \in report_rows(requests', equipment') :
             row.category_id = equipment'[requests'[row.id].equipment_id].category_id
       /\ last'.op = "equipment_write" =>
             \A r \in Ids(requests) : requests'[r].category_id = requests[r].category_id]_vars

C29_Witness ==
    /\ last.op = "equipment_write" /\ Has(last.vals, "category_id")
    /\ \E row \in report_rows(requests, equipment) :
          /\ row.equipment_id = last.ids[1]
          /\ row.category_id = 2
          /\ requests[row.id].category_id = 1

\* C22: after any successful write whose payload sets stage 'scrap', the
\* equipment the request references after the write is inactive and
\* scrapped, also when the same payload moves the request to a different
\* equipment.
C22_ScrapHitsReferencedEquipment ==
    (last.op = "write" /\ last.ok /\ StageOf(last.vals) = "scrap") =>
       \A r \in Range(last.ids) : Scrapped(equipment[requests[r].equipment_id])

\* C23: in every reachable state every request in stage 'scrap' references
\* an equipment that is inactive and scrapped (requests created directly in
\* stage 'scrap', a later mark-operational and a later change of the
\* request's equipment included).
C23_ScrapRequestHasScrappedEquipment ==
    \A r \in Ids(requests) :
       requests[r].stage = "scrap" => Scrapped(equipment[requests[r].equipment_id])

\* C24: the scrap transition on a request changes no field of any other
\* request: the other requests of the same equipment keep their stage, so a
\* request in stage 'new' or 'in_progress' stays open against an equipment
\* that is inactive and scrapped.
C24_ScrapLeavesOtherRequests ==
    [][ScrapAsked(last') =>
          \A r \in Ids(requests) : r \notin Range(last'.ids) => requests'[r] = requests[r]]_vars

C24_Witness ==
    /\ last.op = "scrap" /\ last.ok /\ Len(last.ids) = 1
    /\ \E r \in Ids(requests) :
          /\ r \notin Range(last.ids)
          /\ requests[r].stage = "in_progress"
          /\ requests[r].equipment_id = requests[last.ids[1]].equipment_id
          /\ Scrapped(equipment[requests[r].equipment_id])

\* C25: for requests created in stage 'new' with no close_date and driven
\* only by start, complete, scrap and resetToNew, in every reachable state
\* close_date is set only if the stage is 'repaired' or 'scrap', and every
\* request in stage 'repaired' has close_date set.
C25_CloseDateFollowsStage ==
    \A r \in Ids(requests) :
       /\ requests[r].close_date # 0 => requests[r].stage \in {"repaired", "scrap"}
       /\ requests[r].stage = "repaired" => requests[r].close_date # 0

C25_Witness ==
    /\ last.op = "reset"
    /\ \E r \in Range(last.ids) : requests[r].stage = "new" /\ requests[r].close_date = 0
    /\ \E r \in Ids(requests) : requests[r].stage = "scrap" /\ requests[r].close_date # 0

\* C26: no operation puts an equipment in state 'maintenance': in every
\* state reached through request creation, start, complete, scrap,
\* resetToNew, mark-scrapped and mark-operational each equipment's state is
\* 'operational' or 'scrapped', also while a request referencing it is in
\* stage 'in_progress'.
C26_NeverUnderMaintenance ==
    \A e \in Equipments : equipment[e].state \in {"operational", "scrapped"}

C26_Witness ==
    /\ last.op = "start" /\ last.ok
    /\ \E r \in Range(last.ids) :
          /\ requests[r].stage = "in_progress"
          /\ equipment[requests[r].equipment_id].state = "operational"
          /\ equipment[requests[r].equipment_id].message_ids # <<>>

\* C27: in every reachable state, also after today advances, the set of
\* requests returned by the overdue query of the periodic job equals the set
\* of requests whose stored is_overdue is true.
C27_OverdueQueryMatchesStoredFlag ==
    get_overdue_requests(requests, today) = {r \in Ids(requests) : requests[r].is_overdue}

\* C28: whenever the warranty fields are computed, warranty_alert is true
\* exactly when warranty_state is 'expiring' or 'expired', and warranty_state
\* is 'none' exactly when warranty_date is unset.
C28_AlertMatchesWarrantyState ==
    \A e \in Equipments :
       /\ equipment[e].warranty_alert <=> equipment[e].warranty_state \in {"expiring", "expired"}
       /\ equipment[e].warranty_state = "none" <=> equipment[e].warranty_date = 0

C28_Witness ==
    /\ last.op = "equipment_write" /\ last.vals = [warranty_date |-> 0]
    /\ equipment[last.ids[1]].warranty_state = "none"
    /\ \E e \in Equipments :
          /\ equipment[e].warranty_state = "expiring"
          /\ equipment[e].warranty_alert
          /\ equipment[e].days_to_warranty_end = 30
    /\ today > StartDay

\* C30: in every reachable state every report row that has a
\* resolution_days value has resolution_days >= 0, i.e. no stored request
\* has close_date earlier than request_date.
C30_ResolutionDaysNotNegative ==
    \A row \in report_rows(requests, equipment) :
       \A n \in row.resolution_days : n >= 0
====
